---- MODULE Spec2Model ----
(***************************************************************************)
(* Model of batch_geocoder.py: check_auth, standardize_address (with its   *)
(* nested normalise_row), load_data, geocode_addresses and the script body *)
(* under __main__.                                                         *)
(*                                                                         *)
(* Values.  Cells of a DataFrame are strings: an address text, a printed   *)
(* float ("0.0", "49.2") or NaN.  Identifiers are integers; an identifier  *)
(* outside 0..n-1 also stands for a string identifier, which no integer    *)
(* position ever equals.  Texts handled by normalise_row are sequences of  *)
(* one-character strings so that concatenation and split('-') are          *)
(* computed.  An optional integer (None or an int) is a sequence of length *)
(* at most one.                                                            *)
(***************************************************************************)
EXTENDS Integers, Sequences, FiniteSets, TLC

\* Largest number of physical lines of a CSV file given to load_data.
MaxRows == 2

\* ------------------------------------------------------------------------
\* Values
\* ------------------------------------------------------------------------
NaN == "NaN"                  \* np.nan in a DataFrame cell
Absent == "<no column>"       \* the file has no such column
Unbound == "<unbound>"        \* a local name that no assignment has bound yet
NoKey == "<unset>"            \* GOOGLE_API_KEY is not in os.environ
None == <<>>                  \* Python None for an optional int
NaNField == <<"NaN">>         \* a NaN cell of the wide input (na_values='null')

IdSet == {0, 1, 7}
AddrSet == {"A", "B"}
KeySet == {NoKey, "", "bad", "AIzaGood"}

Min(a, b) == IF a < b THEN a ELSE b
Max(a, b) == IF a < b THEN b ELSE a

\* Injective sequences of length n over S.
InjSeq(S, n) == {s \in [1..n -> S] : \A i, j \in 1..n : s[i] = s[j] => i = j}

\* ------------------------------------------------------------------------
\* The provider (googlemaps), an external collaborator
\* ------------------------------------------------------------------------
Cand(lat, lng) == [lat |-> lat, lng |-> lng]

\* What gmaps.geocode(address) can return: no candidate, or candidates in the
\* provider's ranking.
ResultSet == {<<>>, <<Cand("49.2", "-123.1"), Cand("0.0", "0.0")>>,
              <<Cand("10.5", "20.5")>>}

\* googlemaps.Client(key=...) raises ValueError for an empty or malformed key.
ClientAccepts(k) == k = "AIzaGood"

\* ------------------------------------------------------------------------
\* normalise_row
\* ------------------------------------------------------------------------
\* str(x): a NaN cell prints as 'nan'.
Str(x) == IF x = NaNField THEN <<"n", "a", "n">> ELSE x

\* s.split('-')[0]
RECURSIVE SplitHead(_)
SplitHead(s) ==
    IF s = <<>> \/ Head(s) = "-" THEN <<>> ELSE <<Head(s)>> \o SplitHead(Tail(s))

\* result += sep + text if len(result) else text
Join(result, sep, text) ==
    IF Len(result) # 0 THEN result \o sep \o text ELSE result \o text

normalise_row(row) ==
    LET r1 == IF row.Address_Line_1 # <<>> THEN Str(row.Address_Line_1) ELSE <<>>
        r2 == IF row.CTY_NM # <<>> THEN Join(r1, <<",", " ">>, Str(row.CTY_NM)) ELSE r1
        r3 == IF row.State # <<>> THEN Join(r2, <<",", " ">>, Str(row.State)) ELSE r2
        r4 == IF row.POSTAL_CD # <<>>
              THEN Join(r3, <<" ">>, SplitHead(Str(row.POSTAL_CD))) ELSE r3
        r5 == IF row.ISO_CNTRY_NM # <<>>
              THEN Join(r4, <<",", " ">>, Str(row.ISO_CNTRY_NM)) ELSE r4
    IN  <<row.DIM_LOC_ID, r5>>

\* ------------------------------------------------------------------------
\* Inputs
\* ------------------------------------------------------------------------
\* One data row of the wide input after pd.read_csv(dtype='str',
\* na_values='null', keep_default_na=False): a cell is a text, '' or NaN.
WideRowSet ==
    [DIM_LOC_ID : {7},
     Address_Line_1 : {NaNField, <<>>, <<"S">>},
     CTY_NM : {NaNField, <<>>, <<"C">>},
     State : {NaNField, <<>>, <<"T">>},
     POSTAL_CD : {NaNField, <<>>, <<"1">>, <<"1", "-", "2">>},
     ISO_CNTRY_NM : {NaNField, <<>>, <<"U">>}]

\* The wide input file: zero bytes, a header line only, or a header line and
\* one data row.
WideFileSet ==
    {[bytes |-> FALSE, rows |-> <<>>], [bytes |-> TRUE, rows |-> <<>>]}
    \cup {[bytes |-> TRUE, rows |-> <<r>>] : r \in WideRowSet}

Line(id, a, lat, lon) == [id |-> id, Address |-> a, Latitude |-> lat, Longitude |-> lon]

\* Lines of a two-column file (identifier, address).  pd.read_csv reads an
\* empty or 'null' cell as NaN.
Lines2(n) ==
    {[k \in 1..n |-> Line(ids[k], as[k], Absent, Absent)] :
        ids \in InjSeq(IdSet, n), as \in [1..n -> AddrSet \cup {NaN}]}

\* Lines of a four-column file; a row carries coordinates or has both empty.
Lines4(n) ==
    {[k \in 1..n |-> Line(ids[k], as[k], IF pre[k] THEN "33.3" ELSE NaN,
                          IF pre[k] THEN "44.4" ELSE NaN)] :
        ids \in InjSeq(IdSet, n), as \in [1..n -> AddrSet \cup {NaN}],
        pre \in [1..n -> BOOLEAN]}

\* Lines of a file with another number of columns; the cells are never read.
LinesX(n) == {[k \in 1..n |-> Line(7, NaN, Absent, Absent)]}

\* A CSV file given to load_data: ncols columns on every line (the index
\* column included), lines = <<>> is the zero-byte file.
FileSet ==
    {[ncols |-> 0, lines |-> <<>>]}
    \cup UNION {{[ncols |-> 2, lines |-> l] : l \in Lines2(n)} : n \in 1..MaxRows}
    \cup UNION {{[ncols |-> 4, lines |-> l] : l \in Lines4(n)} : n \in 1..MaxRows}
    \cup UNION {{[ncols |-> c, lines |-> l] : l \in LinesX(n)} :
                    c \in {1, 3, 5}, n \in 1..MaxRows}

NoFile == [ncols |-> 0, lines |-> <<>>]
NoWide == [bytes |-> FALSE, rows |-> <<>>]

\* --limit: absent, or a count from 0 to beyond the longest file.
LimitSet == {None} \cup {<<k>> : k \in 0..(MaxRows + 1)}

VARIABLES
    caller,        \* "main": the script body; "client": a caller of the functions
    key,           \* GOOGLE_API_KEY in the environment
    args,          \* parsed command line: [limit, header]
    wide,          \* the wide input file read by standardize_address
    file,          \* the CSV file read by load_data
    pc,            \* the statement about to run
    err,           \* the exception that ended the run, "none" otherwise
    raisedIn,      \* the function that raised it
    probe,         \* outcome of the liveness probe in check_auth
    address_limit, \* main's address_limit / geocode_addresses' parameter
    header,        \* main's header / load_data's parameter
    data,          \* main's data: the frame standardize_address returned
    df,            \* address_df
    address_list,  \* geocode_addresses' address_list
    address_id,    \* loop index of the geocoding loop
    latitude,      \* locals of geocode_addresses
    longitude,
    calls          \* gmaps.geocode calls of the loop: [pos, address, raised, result]

vars == <<caller, key, args, wide, file, pc, err, raisedIn, probe, address_limit,
          header, data, df, address_list, address_id, latitude, longitude, calls>>

inputs == <<caller, key, args, wide, file>>
locals == <<address_list, address_id, latitude, longitude>>

Truthy(opt) == opt # None /\ opt[1] # 0

Init ==
    /\ caller \in {"main", "client"}
    /\ key \in KeySet
    /\ \/ /\ caller = "main"
          /\ args \in [limit : {None, <<0>>, <<2>>}, header : BOOLEAN]
          /\ wide \in WideFileSet
          /\ file = NoFile
          /\ pc = "parse_args"
          /\ address_limit = None
          /\ header = FALSE
       \/ /\ caller = "client"
          /\ args \in [limit : LimitSet, header : BOOLEAN]
          /\ wide = NoWide
          /\ file \in FileSet
          /\ pc = "check_auth"
          /\ address_limit = args.limit
          /\ header = args.header
    /\ err = "none"
    /\ raisedIn = "none"
    /\ probe = "none"
    /\ data = <<>>
    /\ df = <<>>
    /\ address_list = <<>>
    /\ address_id = 0
    /\ latitude = Unbound
    /\ longitude = Unbound
    /\ calls = <<>>

\* An exception leaves function f and nothing catches it.
Raise(e, f) ==
    /\ pc' = "raised"
    /\ err' = e
    /\ raisedIn' = f

NoRaise == UNCHANGED <<err, raisedIn>>

\* __main__: address_limit and header from the parsed arguments.
ParseArgs ==
    /\ pc = "parse_args"
    /\ address_limit' = IF Truthy(args.limit) THEN args.limit ELSE None
    /\ header' = args.header
    /\ pc' = "check_auth"
    /\ NoRaise
    /\ UNCHANGED <<inputs, probe, data, df, locals, calls>>

\* check_auth
CheckAuth ==
    /\ pc = "check_auth"
    /\ \/ /\ key = NoKey
          /\ probe' = "KeyError"
          /\ Raise("KeyError", "check_auth")
       \/ /\ key # NoKey
          /\ ~ClientAccepts(key)
          /\ probe' = "ValueError"
          /\ pc' = IF caller = "main" THEN "standardize_address" ELSE "load_data"
          /\ NoRaise
       \/ /\ ClientAccepts(key)
          /\ \/ /\ probe' = "ok"
                /\ pc' = IF caller = "main" THEN "standardize_address" ELSE "load_data"
                /\ NoRaise
             \/ /\ probe' = "ApiError"
                /\ Raise("ApiError", "check_auth")
    /\ UNCHANGED <<inputs, address_limit, header, data, df, locals, calls>>

\* standardize_address, called by the script body with the wide input file.
StandardizeAddress ==
    /\ pc = "standardize_address"
    /\ \/ \* zero bytes: the EmptyDataError of the one-row read is logged, the
          \* full read raises it again
          /\ ~wide.bytes
          /\ Raise("EmptyDataError", "standardize_address")
          /\ UNCHANGED data
       \/ \* header line only: DataFrame.apply on an empty frame returns a
          \* frame, and whether assigning it to one column raises depends on
          \* the pandas release
          /\ wide.bytes
          /\ wide.rows = <<>>
          /\ \/ Raise("ValueError", "standardize_address")
             \/ pc' = "load_data" /\ NoRaise
          /\ UNCHANGED data
       \/ /\ wide.bytes
          /\ wide.rows # <<>>
          /\ data' = [k \in DOMAIN wide.rows |->
                        [Index |-> wide.rows[k].DIM_LOC_ID,
                         Address_Text |-> normalise_row(wide.rows[k])[2],
                         Latitude |-> NaN, Longitude |-> NaN]]
          /\ pc' = "load_data"
          /\ NoRaise
    /\ UNCHANGED <<inputs, probe, address_limit, header, df, locals, calls>>

\* ------------------------------------------------------------------------
\* load_data
\* ------------------------------------------------------------------------
\* Column names chosen from len(cols); <<>> stands for the TypeError of the
\* else branch.
Names_lenient(ncols) ==
    IF ncols = 2 THEN <<"Address">> ELSE <<"Address", "Latitude", "Longitude">>

Names(ncols) ==
    IF ncols = 2 THEN <<"Address">>
    ELSE IF ncols = 4 THEN <<"Address", "Latitude", "Longitude">>
    ELSE <<>>

\* pd.read_csv(..., index_col=0) with header=0 (first line gives the column
\* names) or header=None.
DataRows(f, hdr) == IF hdr THEN Tail(f.lines) ELSE f.lines

\* address_df.assign(Latitude=np.nan, Longitude=np.nan)
AssignNaN(frame) ==
    [k \in DOMAIN frame |-> [frame[k] EXCEPT !.Latitude = NaN, !.Longitude = NaN]]

\* The frame load_data returns for a file it accepts.
LoadedFrame(f, hdr) ==
    IF f.ncols = 2 THEN AssignNaN(DataRows(f, hdr)) ELSE DataRows(f, hdr)

LoadData ==
    /\ pc = "load_data"
    /\ \/ \* the script body passes the DataFrame `data`, which pd.read_csv
          \* rejects
          /\ caller = "main"
          /\ Raise("ValueError", "load_data")
          /\ UNCHANGED df
       \/ \* zero bytes: EmptyDataError is logged and cols stays unbound
          /\ caller = "client"
          /\ file.lines = <<>>
          /\ Raise("UnboundLocalError", "load_data")
          /\ UNCHANGED df
       \/ /\ caller = "client"
          /\ file.lines # <<>>
          /\ Names(file.ncols) = <<>>
          /\ Raise("TypeError", "load_data")
          /\ UNCHANGED df
       \/ /\ caller = "client"
          /\ file.lines # <<>>
          /\ Names(file.ncols) # <<>>
          /\ df' = LoadedFrame(file, header)
          /\ pc' = "geocode_addresses"
          /\ NoRaise
    /\ UNCHANGED <<inputs, probe, address_limit, header, data, locals, calls>>

\* ------------------------------------------------------------------------
\* geocode_addresses
\* ------------------------------------------------------------------------
\* list[:k]
Slice(list, k) ==
    SubSeq(list, 1, IF k >= 0 THEN Min(k, Len(list)) ELSE Max(0, Len(list) + k))

\* if address_limit: address_list = address_list[:address_limit]
Truncate(list, limit) == IF Truthy(limit) THEN Slice(list, limit[1]) ELSE list

SetCol(rec, col, v) ==
    IF col = "Latitude" THEN [rec EXCEPT !.Latitude = v]
    ELSE [rec EXCEPT !.Longitude = v]

\* address_df.at[label, col] = v: .at addresses a row by its index label, and
\* setting a label the index does not hold appends a row with that label.
AtSet(frame, label, col, v) ==
    IF \E k \in DOMAIN frame : frame[k].id = label
    THEN [k \in DOMAIN frame |->
            IF frame[k].id = label THEN SetCol(frame[k], col, v) ELSE frame[k]]
    ELSE Append(frame, SetCol(Line(label, NaN, NaN, NaN), col, v))

\* The two assignments that end the loop body.
WriteBack(frame, i, lat, lon) ==
    AtSet(AtSet(frame, i, "Latitude", lat), i, "Longitude", lon)

\* gmaps.geocode raises at position i: nothing in the loop catches it.
Propagate_swallow(frame, i) ==
    [pc |-> "loop", err |-> "none", raisedIn |-> "none",
     df |-> WriteBack(frame, i, "0.0", "0.0"), address_id |-> i + 1]

Propagate(frame, i) ==
    [pc |-> "raised", err |-> "ProviderError", raisedIn |-> "geocode_addresses",
     df |-> frame, address_id |-> i]

Call(i, a, raised, result) ==
    [pos |-> i, address |-> a, raised |-> raised, result |-> result]

\* Client construction, the address list and its truncation.
GeocodeStart ==
    /\ pc = "geocode_addresses"
    /\ \/ /\ ~ClientAccepts(key)
          /\ Raise("ValueError", "geocode_addresses")
          /\ UNCHANGED locals
       \/ /\ ClientAccepts(key)
          /\ address_list' = Truncate([k \in DOMAIN df |-> df[k].Address], address_limit)
          /\ address_id' = 0
          /\ pc' = "loop"
          /\ NoRaise
          /\ UNCHANGED <<latitude, longitude>>
    /\ UNCHANGED <<inputs, probe, address_limit, header, data, df, calls>>

\* One pass of the loop body.
GeocodeStep ==
    /\ pc = "loop"
    /\ address_id < Len(address_list)
    /\ LET address == address_list[address_id + 1] IN
       \/ \* pd.isnull: no call, default coordinates
          /\ address = NaN
          /\ latitude' = "0.0"
          /\ longitude' = "0.0"
          /\ df' = WriteBack(df, address_id, "0.0", "0.0")
          /\ address_id' = address_id + 1
          /\ UNCHANGED <<pc, err, raisedIn, calls>>
       \/ \* the call raises
          /\ address # NaN
          /\ calls' = Append(calls, Call(address_id, address, TRUE, <<>>))
          /\ LET o == Propagate(df, address_id) IN
                /\ pc' = o.pc
                /\ err' = o.err
                /\ raisedIn' = o.raisedIn
                /\ df' = o.df
                /\ address_id' = o.address_id
          /\ UNCHANGED <<latitude, longitude>>
       \/ \* the call returns a list
          /\ address # NaN
          /\ \E r \in ResultSet :
                LET lat == IF r # <<>> THEN r[1].lat ELSE latitude
                    lon == IF r # <<>> THEN r[1].lng ELSE longitude
                IN  /\ calls' = Append(calls, Call(address_id, address, FALSE, r))
                    /\ latitude' = lat
                    /\ longitude' = lon
                    /\ IF lat = Unbound
                       THEN /\ Raise("UnboundLocalError", "geocode_addresses")
                            /\ UNCHANGED <<df, address_id>>
                       ELSE /\ df' = WriteBack(df, address_id, lat, lon)
                            /\ address_id' = address_id + 1
                            /\ UNCHANGED <<pc, err, raisedIn>>
    /\ UNCHANGED <<inputs, probe, address_limit, header, data, address_list>>

\* The loop is exhausted: return address_df.
GeocodeReturn ==
    /\ pc = "loop"
    /\ address_id = Len(address_list)
    /\ pc' = "returned"
    /\ NoRaise
    /\ UNCHANGED <<inputs, probe, address_limit, header, data, df, locals, calls>>

Next ==
    \/ ParseArgs
    \/ CheckAuth
    \/ StandardizeAddress
    \/ LoadData
    \/ GeocodeStart
    \/ GeocodeStep
    \/ GeocodeReturn

Spec == Init /\ [][Next]_vars

\* ------------------------------------------------------------------------
\* Properties
\* ------------------------------------------------------------------------
\* The batch as load_data handed it to geocode_addresses.
Before == LoadedFrame(file, header)

\* geocode_addresses has been entered.
InGeocode ==
    \/ pc \in {"loop", "returned"}
    \/ pc = "raised" /\ raisedIn = "geocode_addresses"

\* Number of positions the loop body has run for: positions 0..Processed-1.
Processed == address_id

\* C1: a position whose address is non-empty and for which the provider
\* returned an empty list ends with latitude 0.0 and longitude 0.0, and the
\* loop goes on to the next position.
C1_EmptyResultFallback ==
    \A c \in DOMAIN calls :
        (~calls[c].raised /\ calls[c].result = <<>>) =>
            LET i == calls[c].pos IN
                /\ Processed > i
                /\ i + 1 <= Len(df)
                /\ df[i + 1].Latitude = "0.0"
                /\ df[i + 1].Longitude = "0.0"

\* C2: a processed position whose address is null gets no provider call and
\* its record gets latitude 0.0 and longitude 0.0; a completed run made as
\* many calls as there are positions in the range with a non-null address.
C2_NullSkipsProvider ==
    /\ \A i \in 0..(Processed - 1) :
          address_list[i + 1] = NaN =>
              /\ \A c \in DOMAIN calls : calls[c].pos # i
              /\ i + 1 <= Len(df)
              /\ df[i + 1].Latitude = "0.0"
              /\ df[i + 1].Longitude = "0.0"
    /\ pc = "returned" =>
          Len(calls) = Cardinality({i \in DOMAIN address_list : address_list[i] # NaN})

\* C3: during and after a run over [0, Len(address_list)) the batch has the
\* records it had, in the same order, and every record outside the range
\* has the identifier, address, latitude and longitude it had.
C3_OnlyRangeChanges ==
    InGeocode =>
        /\ Len(df) = Len(Before)
        /\ \A k \in DOMAIN Before :
              k > Len(address_list) => (k \in DOMAIN df /\ df[k] = Before[k])

\* C4: a step in which the provider raises ends the run and writes nothing;
\* the raising call is the last call; once the run has ended with an
\* exception nothing changes any more (no write, no call, no to_csv).
C4_AbortOnProviderError ==
    /\ [](\A c \in DOMAIN calls :
            calls[c].raised =>
                /\ c = Len(calls)
                /\ pc = "raised"
                /\ address_id = calls[c].pos)
    /\ [][/\ (Len(calls') > Len(calls) /\ calls'[Len(calls')].raised) =>
                (pc' = "raised" /\ df' = df /\ address_id' = address_id)
          /\ pc = "raised" => UNCHANGED vars]_vars

C4_Witness ==
    /\ pc = "raised"
    /\ err = "ProviderError"
    /\ address_id = 1
    /\ Len(calls) = 2
    /\ df[1].Latitude = "49.2"

\* C5: nothing is loaded and no batch call is made before the probe, and a
\* failed probe ends the run in check_auth with nothing loaded, no batch
\* call made and nothing written.
C5_ProbeFailsFast ==
    /\ probe = "none" => (data = <<>> /\ df = <<>> /\ calls = <<>>)
    /\ probe \in {"KeyError", "ValueError", "ApiError"} =>
          /\ pc = "raised"
          /\ raisedIn = "check_auth"
          /\ data = <<>>
          /\ df = <<>>
          /\ calls = <<>>

\* C6: a completed run processed exactly the positions [0, min(limit, n)) when
\* a limit is given and [0, n) when none is.
C6_LimitRange ==
    pc = "returned" =>
        Processed = (IF address_limit = None THEN Len(Before)
                     ELSE Min(address_limit[1], Len(Before)))

\* The input has no data row.
NoDataRows ==
    \/ caller = "client" /\ (file.lines = <<>> \/ (header /\ Len(file.lines) = 1))
    \/ caller = "main" /\ wide.rows = <<>>

\* C7: an input without data rows (zero bytes, or only the header line when
\* has_header is true) never gets past loading: geocode_addresses is not
\* entered and does not return, and no provider call is made.
C7_EmptyInputFails ==
    NoDataRows => (pc \notin {"geocode_addresses", "loop", "returned"} /\ calls = <<>>)

\* C8: load_data dispatches on the column count of a non-empty file alone.
\* One non-index column: every latitude and longitude is NaN; three: each
\* row keeps its latitude and longitude; any other count: TypeError, no
\* batch, no provider call.  has_header only decides whether the first
\* line is a record.
C8_ColumnDispatch ==
    (caller = "client" /\ file.lines # <<>>) =>
        LET skip == IF header THEN 1 ELSE 0 IN
        /\ (file.ncols - 1 \in {1, 3} /\ pc = "geocode_addresses") =>
              /\ Len(df) = Len(file.lines) - skip
              /\ \A k \in DOMAIN df :
                    /\ df[k].id = file.lines[k + skip].id
                    /\ df[k].Address = file.lines[k + skip].Address
                    /\ file.ncols - 1 = 1 =>
                          (df[k].Latitude = NaN /\ df[k].Longitude = NaN)
                    /\ file.ncols - 1 = 3 =>
                          /\ df[k].Latitude = file.lines[k + skip].Latitude
                          /\ df[k].Longitude = file.lines[k + skip].Longitude
        /\ file.ncols - 1 \in {1, 3} => ~(pc = "raised" /\ raisedIn = "load_data")
        /\ file.ncols - 1 \notin {1, 3} =>
              /\ pc \in {"check_auth", "load_data", "raised"}
              /\ (pc = "raised" /\ raisedIn = "load_data") => err = "TypeError"
              /\ df = <<>>
              /\ calls = <<>>

C8_Witness ==
    /\ caller = "client"
    /\ file.ncols = 3
    /\ Len(file.lines) = 2
    /\ header
    /\ pc = "raised"
    /\ raisedIn = "load_data"
    /\ err = "TypeError"

\* A field contributes when it is neither null nor the empty string.
Contributes(x) == x # NaNField /\ x # <<>>

Part(x, sep) == [present |-> Contributes(x), text |-> x, sep |-> sep]

RECURSIVE JoinParts(_, _)
JoinParts(parts, acc) ==
    IF parts = <<>> THEN acc
    ELSE LET p == Head(parts) IN
         JoinParts(Tail(parts),
                   IF ~p.present THEN acc
                   ELSE IF acc = <<>> THEN p.text
                   ELSE acc \o p.sep \o p.text)

ExpectedText(row) ==
    JoinParts(<<Part(row.Address_Line_1, <<>>),
                Part(row.CTY_NM, <<",", " ">>),
                Part(row.State, <<",", " ">>),
                Part(IF Contributes(row.POSTAL_CD) THEN SplitHead(row.POSTAL_CD)
                     ELSE row.POSTAL_CD, <<" ">>),
                Part(row.ISO_CNTRY_NM, <<",", " ">>)>>, <<>>)

\* C9: the address text is the non-null, non-empty fields in the order street,
\* city, state, postal code, country, the postal code cut at its first
\* hyphen, a separator only between two contributed fields.
C9_NormalisedText ==
    \A k \in DOMAIN data : data[k].Address_Text = ExpectedText(wide.rows[k])

\* C10: the first candidate returned for position i is written into the
\* record at position i, and no record's identifier or address changes.
C10_FirstCandidateAtPosition ==
    /\ \A c \in DOMAIN calls :
          (~calls[c].raised /\ calls[c].result # <<>>) =>
              LET i == calls[c].pos IN
                  /\ i + 1 <= Len(df)
                  /\ df[i + 1].Latitude = calls[c].result[1].lat
                  /\ df[i + 1].Longitude = calls[c].result[1].lng
    /\ InGeocode =>
          \A k \in DOMAIN Before :
              /\ k \in DOMAIN df
              /\ df[k].id = Before[k].id
              /\ df[k].Address = Before[k].Address
====
